---- MODULE Spec2Model ----
(***************************************************************************)
(* CNC process-plan post-processing: the plan normalizer inside            *)
(* get_process_plan_from_llm (src/llm_client.py), the plan validator       *)
(* validate_plan with its helpers (src/planner.py) and the constraint      *)
(* catalog (src/src/config.py).                                            *)
(*                                                                         *)
(* Python values are encoded uniformly as records [t, n, s]:               *)
(*   t = "absent"  the dict has no such key                                *)
(*   t = "null"    None                                                    *)
(*   t = "num"     a finite number, n its (integer) value                  *)
(*   t = "inf"     the float +infinity (json.loads("1e999"))               *)
(*   t = "str"     a string, s its characters                              *)
(*   t = "list"    a list of strings, s its elements                       *)
(* Strings are sequences of one-character strings so that lower() and the  *)
(* substring operator `in` are computed as Python computes them.           *)
(***************************************************************************)
EXTENDS Integers, Sequences, FiniteSets, TLC

VARIABLES
    heap,            \* the dict objects: heap[id] is the step record with identity id
    heap0,           \* the heap as it was when the current call was entered
    plan,            \* the list the current call was given: a sequence of ids
    plan0,           \* plan as it was when the current call was entered
    cleaned,         \* llm_client.py: the normalizer's list `cleaned`
    data,            \* llm_client.py: what get_process_plan_from_llm returns
    validated_plan,  \* planner.py: validate_plan's list `validated_plan`
    i,               \* position of the running for-loop in plan (1-based)
    pc,              \* position in the running function
    pass,            \* which call of validate_plan this is (1: first, 2: on its own output)
    material,        \* validate_plan / _infer_material_key argument material text
    material_db,     \* _infer_material_key argument: the catalog's keys in dict order
    material_key     \* result of _infer_material_key

vars == <<heap, heap0, plan, plan0, cleaned, data, validated_plan, i, pc, pass,
          material, material_db, material_key>>

(***************************************************************************)
(* Bounds of the model.                                                    *)
(***************************************************************************)
MaxFragments == 2    \* material texts are built from at most this many fragments
MaxShort == 2        \* raw plans over the full step alphabet have at most this many steps
MaxMiddle == 13      \* patterned raw plans: Setup, up to this many steps, Final Inspection
MaxPlanLen == 2      \* validate_plan: plans over the core steps have at most this many steps

(***************************************************************************)
(* Python values.                                                          *)
(***************************************************************************)
Absent == [t |-> "absent", n |-> 0, s |-> <<>>]
Null == [t |-> "null", n |-> 0, s |-> <<>>]
Inf == [t |-> "inf", n |-> 0, s |-> <<>>]
Num(x) == [t |-> "num", n |-> x, s |-> <<>>]
Str(x) == [t |-> "str", n |-> 0, s |-> x]
List(x) == [t |-> "list", n |-> 0, s |-> x]

\* dict.get(key): None when the key is missing
Get(v) == IF v.t = "absent" THEN Null ELSE v

\* Python truthiness of a value
Truthy(v) ==
    CASE v.t \in {"absent", "null"} -> FALSE
      [] v.t = "num" -> v.n # 0
      [] v.t = "inf" -> TRUE
      [] OTHER -> v.s # <<>>

(***************************************************************************)
(* str.lower() and the substring test `a in b`.                            *)
(***************************************************************************)
UpperChars == <<"A","B","C","D","E","F","G","H","I","J","K","L","M",
                "N","O","P","Q","R","S","T","U","V","W","X","Y","Z">>
LowerChars == <<"a","b","c","d","e","f","g","h","i","j","k","l","m",
                "n","o","p","q","r","s","t","u","v","w","x","y","z">>

LowerChar(c) ==
    IF \E k \in 1..Len(UpperChars) : UpperChars[k] = c
    THEN LowerChars[CHOOSE k \in 1..Len(UpperChars) : UpperChars[k] = c]
    ELSE c

lower(s) == [k \in 1..Len(s) |-> LowerChar(s[k])]

\* a in b, for strings
IsSubstr(a, b) ==
    \E k \in 0..(Len(b) - Len(a)) : SubSeq(b, k + 1, k + Len(a)) = a

(***************************************************************************)
(* src/src/config.py: the constraint catalog.                              *)
(***************************************************************************)
max_spindle_speed_rpm == 8100
max_feed_rate_mm_min == 15000

k_aluminum == <<"a","l","u","m","i","n","u","m">>
k_steel == <<"s","t","e","e","l">>
k_stainless == <<"s","t","a","i","n","l","e","s","s">>
k_cast_iron == <<"c","a","s","t","_","i","r","o","n">>
k_titanium == <<"t","i","t","a","n","i","u","m">>
k_brass == <<"b","r","a","s","s">>
k_plastics == <<"p","l","a","s","t","i","c","s">>

\* the dict MATERIAL_CONSTRAINTS, its items in insertion order
MATERIAL_CONSTRAINTS == <<
    [key |-> k_aluminum,  milling |-> <<150, 500>>, drilling |-> <<80, 200>>,
                          reaming |-> <<60, 150>>,  tapping |-> <<20, 60>>],
    [key |-> k_steel,     milling |-> <<80, 150>>,  drilling |-> <<25, 40>>,
                          reaming |-> <<20, 40>>,   tapping |-> <<10, 20>>],
    [key |-> k_stainless, milling |-> <<60, 120>>,  drilling |-> <<15, 25>>,
                          reaming |-> <<10, 25>>,   tapping |-> <<5, 15>>],
    [key |-> k_cast_iron, milling |-> <<60, 120>>,  drilling |-> <<20, 35>>,
                          reaming |-> <<15, 30>>,   tapping |-> <<8, 20>>],
    [key |-> k_titanium,  milling |-> <<30, 60>>,   drilling |-> <<10, 20>>,
                          reaming |-> <<8, 15>>,    tapping |-> <<4, 10>>],
    [key |-> k_brass,     milling |-> <<200, 400>>, drilling |-> <<60, 150>>,
                          reaming |-> <<50, 120>>,  tapping |-> <<15, 40>>],
    [key |-> k_plastics,  milling |-> <<300, 800>>, drilling |-> <<100, 250>>,
                          reaming |-> <<80, 200>>,  tapping |-> <<20, 50>>] >>

\* the keys of a catalog, in iteration order
Keys(db) == [k \in 1..Len(db) |-> db[k].key]

(***************************************************************************)
(* planner.py: _infer_material_key                                         *)
(***************************************************************************)
\* [key for key in material_db if key in normalized_text]
found_keys(keys, normalized_text) ==
    SelectSeq(keys, LAMBDA key : IsSubstr(key, normalized_text))

\* max(found, key=len) with the first k elements seen: Python's max keeps the
\* first of several maximal elements
RECURSIVE MaxScan(_, _)
MaxScan(found, k) ==
    IF k = 1 THEN found[1]
    ELSE LET best == MaxScan(found, k - 1)
         IN  IF Len(found[k]) > Len(best) THEN found[k] ELSE best

MinScanLen(found) ==
    CHOOSE x \in {found[k] : k \in 1..Len(found)} :
        \A k \in 1..Len(found) : Len(x) <= Len(found[k])

\* a plausible slip: the shortest match instead of the longest
MaxByLenShortest(found) == MinScanLen(found)

MaxByLen(found) == MaxScan(found, Len(found))

NormalizeText(material_text) == lower(material_text.s)

\* keys: the catalog's keys; the result is Null (None) or Str(key)
_infer_material_key(material_text, keys) ==
    IF ~Truthy(material_text) THEN Null
    ELSE LET found == found_keys(keys, NormalizeText(material_text))
         IN  IF found = <<>> THEN Null ELSE Str(MaxByLen(found))

(***************************************************************************)
(* Material texts and catalogs the resolver is run on.                     *)
(***************************************************************************)
Fragments == {
    <<"6","0","6","1"," ">>,
    <<"A","l","u","m","i","n","u","m">>,
    <<"S","T","E","E","L">>,
    <<"s","t","e","e","l">>,
    <<"S","t","a","i","n","l","e","s","s">>,
    <<"s","t","a","i","n">>,
    <<"l","e","s","s">>,
    <<" ">>,
    <<"b","r","a","s","s">>,
    <<"w","o","o","d">> }

RECURSIVE TextsOf(_)
TextsOf(n) ==
    IF n = 0 THEN {<<>>}
    ELSE LET shorter == TextsOf(n - 1)
         IN  shorter \cup {t \o f : t \in shorter, f \in Fragments}

MaterialTexts == {Null} \cup {Str(t) : t \in TextsOf(MaxFragments)}

\* catalogs: the configured one, the same in reverse dict order, one without
\* "stainless", and an empty one
Reverse(s) == [k \in 1..Len(s) |-> s[Len(s) + 1 - k]]
Catalogs == {
    Keys(MATERIAL_CONSTRAINTS),
    Reverse(Keys(MATERIAL_CONSTRAINTS)),
    SelectSeq(Keys(MATERIAL_CONSTRAINTS), LAMBDA k : k # k_stainless),
    <<>> }

(***************************************************************************)
(* Specification of the material resolver alone.                           *)
(***************************************************************************)
InitInfer ==
    /\ material \in MaterialTexts
    /\ material_db \in Catalogs
    /\ material_key = Null
    /\ pc = "infer"
    /\ heap = <<>> /\ heap0 = <<>> /\ plan = <<>> /\ plan0 = <<>>
    /\ cleaned = <<>> /\ data = [ok |-> FALSE, plan |-> <<>>]
    /\ validated_plan = <<>> /\ i = 1 /\ pass = 0

InferKey ==
    /\ pc = "infer"
    /\ material_key' = _infer_material_key(material, material_db)
    /\ pc' = "inferred"
    /\ UNCHANGED <<heap, heap0, plan, plan0, cleaned, data, validated_plan, i, pass,
                   material, material_db>>

NextInfer == InferKey

SpecInfer == InitInfer /\ [][NextInfer]_vars

\* the catalog keys that are substrings of the lower-cased text
Matching == {material_db[k] : k \in {j \in 1..Len(material_db) :
                 material.t = "str" /\ IsSubstr(material_db[j], lower(material.s))}}

\* C8: _infer_material_key returns None when the text is None or empty or no
\* catalog key is a substring of the lower-cased text; otherwise it returns a
\* catalog key that is such a substring and no matching key is longer.
C8_LongestMatch ==
    pc = "inferred" =>
        IF material.t # "str" \/ material.s = <<>> \/ Matching = {}
        THEN material_key = Null
        ELSE /\ material_key.t = "str"
             /\ material_key.s \in Matching
             /\ \A k \in Matching : Len(k) <= Len(material_key.s)

\* a text holding both "stainless" and "steel" (in upper case) resolved to "stainless"
C8_Witness ==
    /\ pc = "inferred"
    /\ {k_stainless, k_steel} \subseteq Matching
    /\ material.s # lower(material.s)
    /\ material_key = Str(k_stainless)

(***************************************************************************)
(* Step records (the dicts of a plan).                                     *)
(***************************************************************************)
NoStep == [step |-> Absent, operation |-> Absent, tool_description |-> Absent,
           spindle_speed_rpm |-> Absent, feed_rate_mm_min |-> Absent,
           tool_diameter_mm |-> Absent, notes |-> Absent,
           validation_flags |-> Absent, validation_warnings |-> Absent]

Min(a, b) == IF a < b THEN a ELSE b

(***************************************************************************)
(* llm_client.py: the post-validation of get_process_plan_from_llm         *)
(* (lines 117-133), run on the parsed candidate plan.                      *)
(***************************************************************************)
op_Setup == <<"S","e","t","u","p">>
op_FaceMilling == <<"F","a","c","e"," ","M","i","l","l","i","n","g">>
op_Roughing == <<"R","o","u","g","h","i","n","g">>
op_Finishing == <<"F","i","n","i","s","h","i","n","g">>
op_CenterDrilling == <<"C","e","n","t","e","r"," ","D","r","i","l","l","i","n","g">>
op_Drilling == <<"D","r","i","l","l","i","n","g">>
op_Reaming == <<"R","e","a","m","i","n","g">>
op_Tapping == <<"T","a","p","p","i","n","g">>
op_Chamfering == <<"C","h","a","m","f","e","r","i","n","g">>
op_Deburring == <<"D","e","b","u","r","r","i","n","g">>
op_Cleanup == <<"C","l","e","a","n","u","p">>
op_FinalInspection == <<"F","i","n","a","l"," ","I","n","s","p","e","c","t","i","o","n">>
\* an operation name outside the enumerated set
op_Polishing == <<"P","o","l","i","s","h","i","n","g">>

ALLOWED_OPS == {Str(op_Setup), Str(op_FaceMilling), Str(op_Roughing), Str(op_Finishing),
                Str(op_CenterDrilling), Str(op_Drilling), Str(op_Reaming), Str(op_Tapping),
                Str(op_Chamfering), Str(op_Deburring), Str(op_Cleanup),
                Str(op_FinalInspection)}

\* cleaned[:10]
StepCap == 10

\* d["operation"] raises KeyError when the key is missing; the function's
\* `except Exception` turns that into `return None`
KeyError(v) == v.t = "absent"

\* a plausible slip: only the first step is checked
RejectsFirstOnly(h, p) ==
    \/ p = <<>>
    \/ KeyError(h[p[1]].operation)
    \/ h[p[1]].operation # Str(op_Setup)

\* line 119 (and the KeyError path of lines 134-136): the plan is refused
Rejects(h, p) ==
    \/ p = <<>>
    \/ KeyError(h[p[1]].operation)
    \/ h[p[1]].operation # Str(op_Setup)
    \/ KeyError(h[p[Len(p)]].operation)
    \/ h[p[Len(p)]].operation # Str(op_FinalInspection)

\* lines 125-129: the step is not skipped by either `continue`
Keeps(h, cl, id) ==
    LET op == Get(h[id].operation)
    IN  /\ op \in ALLOWED_OPS
        /\ ~(cl # <<>> /\ h[cl[Len(cl)]].operation = op /\ ~Truthy(Get(h[id].notes)))

\* a plausible slip: the step is numbered by its position in the raw plan
StepNumberEnumerate(cl, k) == k

\* line 130: len(cleaned) + 1 (k is enumerate's index, unused by the code)
StepNumber(cl, k) == Len(cl) + 1

\* line 132: cleaned[:10]
Cap(cl) == SubSeq(cl, 1, Min(StepCap, Len(cl)))

(***************************************************************************)
(* Candidate plans the normalizer is run on.                               *)
(***************************************************************************)
RawOps == {Absent, Str(op_Setup), Str(op_FinalInspection), Str(op_Drilling),
           Str(op_Reaming), Str(op_Polishing)}
RawNotes == {Absent, Str(<<>>), Str(<<"M","6">>)}
RawSteps == {[NoStep EXCEPT !.operation = o, !.notes = nt] : o \in RawOps, nt \in RawNotes}

SetupStep == [NoStep EXCEPT !.operation = Str(op_Setup), !.notes = Str(<<"c","l","a","m","p">>)]
FinalStep == [NoStep EXCEPT !.operation = Str(op_FinalInspection)]

\* every plan of at most n steps over RawSteps
RECURSIVE ShortPlans(_)
ShortPlans(n) ==
    IF n = 0 THEN {<<>>}
    ELSE LET shorter == ShortPlans(n - 1)
         IN  shorter \cup {Append(q, st) : q \in shorter, st \in RawSteps}

\* Setup, then n steps alternating a, b, a, ..., then Final Inspection
Patterned(a, b, n) ==
    <<SetupStep>> \o [k \in 1..n |-> IF k % 2 = 1 THEN a ELSE b] \o <<FinalStep>>

RawPlans ==
    ShortPlans(MaxShort)
      \cup {Patterned(a, b, n) : a \in RawSteps, b \in RawSteps, n \in 0..MaxMiddle}

\* the model's numbering of the candidate: none, or 1, 2, ... as the prompt asks
Numbered(q, numbered) ==
    [k \in 1..Len(q) |-> IF numbered THEN [q[k] EXCEPT !.step = Num(k)] ELSE q[k]]

None == [ok |-> FALSE, plan |-> <<>>]

InitNormalize ==
    /\ \E q \in RawPlans, numbered \in BOOLEAN :
          /\ heap = Numbered(q, numbered)
          /\ plan = [k \in 1..Len(q) |-> k]
    /\ heap0 = heap
    /\ plan0 = plan
    /\ cleaned = <<>>
    /\ data = None
    /\ i = 1
    /\ pc = "post_validate"
    /\ validated_plan = <<>> /\ pass = 0
    /\ material = Null /\ material_db = <<>> /\ material_key = Null

\* lines 118-120
PostValidate ==
    /\ pc = "post_validate"
    /\ IF Rejects(heap, plan)
       THEN /\ data' = None
            /\ pc' = "returned"
       ELSE /\ data' = data
            /\ pc' = "clean"
    /\ cleaned' = <<>>
    /\ i' = 1
    /\ UNCHANGED <<heap, heap0, plan, plan0, validated_plan, pass,
                   material, material_db, material_key>>

\* lines 124-131: one iteration of the loop; `step` is the dict of the plan
\* itself, so step["step"] = ... writes into it
CleanStep ==
    /\ pc = "clean"
    /\ i <= Len(plan)
    /\ IF Keeps(heap, cleaned, plan[i])
       THEN /\ heap' = [heap EXCEPT ![plan[i]].step = Num(StepNumber(cleaned, i))]
            /\ cleaned' = Append(cleaned, plan[i])
       ELSE UNCHANGED <<heap, cleaned>>
    /\ i' = i + 1
    /\ UNCHANGED <<heap0, plan, plan0, data, validated_plan, pc, pass,
                   material, material_db, material_key>>

\* lines 132-133
CapReturn ==
    /\ pc = "clean"
    /\ i > Len(plan)
    /\ data' = [ok |-> TRUE, plan |-> Cap(cleaned)]
    /\ pc' = "returned"
    /\ UNCHANGED <<heap, heap0, plan, plan0, cleaned, validated_plan, i, pass,
                   material, material_db, material_key>>

NextNormalize == PostValidate \/ CleanStep \/ CapReturn

SpecNormalize == InitNormalize /\ [][NextNormalize]_vars

(***************************************************************************)
(* Claims about the normalizer (SpecNormalize).                            *)
(***************************************************************************)
\* the raw plan as it was handed in
RawOp(k) == Get(heap0[plan0[k]].operation)
RawNotesOf(k) == Get(heap0[plan0[k]].notes)

\* C1: the normalizer returns None exactly for the candidates that are empty,
\* or whose first operation is not "Setup", or whose last operation is not
\* "Final Inspection", whatever the other steps hold; every other candidate
\* yields a plan.
C1_RejectsExactlyBadShape ==
    pc = "returned" =>
        (data = None <=>
            \/ plan0 = <<>>
            \/ RawOp(1) # Str(op_Setup)
            \/ RawOp(Len(plan0)) # Str(op_FinalInspection))

\* a candidate of two or more steps that starts with Setup was refused
\* because its last step is Drilling
C1_Witness ==
    /\ pc = "returned"
    /\ data = None
    /\ Len(plan0) >= 2
    /\ RawOp(1) = Str(op_Setup)
    /\ RawOp(Len(plan0)) = Str(op_Drilling)

\* C2: every returned plan starts with "Setup" and ends with "Final
\* Inspection", also when more than 10 steps survive.
C2_FirstSetupLastInspection ==
    (pc = "returned" /\ data.ok) =>
        /\ data.plan # <<>>
        /\ heap[data.plan[1]].operation = Str(op_Setup)
        /\ heap[data.plan[Len(data.plan)]].operation = Str(op_FinalInspection)

\* The steps that survive, stated on the raw plan alone: step k survives iff
\* its operation is enumerated and it is not a note-less repeat of the nearest
\* earlier step with an enumerated operation.
AllowedAt(k) == RawOp(k) \in ALLOWED_OPS
EarlierAllowed(k) == {j \in 1..(k - 1) : AllowedAt(j)}
NearestAllowed(k) == CHOOSE j \in EarlierAllowed(k) : \A m \in EarlierAllowed(k) : m <= j
Survives(k) ==
    /\ AllowedAt(k)
    /\ ~(/\ EarlierAllowed(k) # {}
         /\ RawOp(NearestAllowed(k)) = RawOp(k)
         /\ ~Truthy(RawNotesOf(k)))
Survivors == {k \in 1..Len(plan0) : Survives(k)}
\* the position in the raw plan of the m-th element of the set S of positions
Nth(S, m) == CHOOSE k \in S : Cardinality({j \in S : j <= k}) = m

\* C3: a returned plan is the first min(10, k) surviving steps in their
\* original order, numbered 1, 2, ..., n and otherwise as they were.
C3_FirstTenSurvivorsRenumbered ==
    (pc = "returned" /\ data.ok) =>
        LET S == Survivors
            n == Min(StepCap, Cardinality(S))
        IN  /\ Len(data.plan) = n
            /\ \A m \in 1..n :
                  /\ data.plan[m] = plan0[Nth(S, m)]
                  /\ heap[data.plan[m]] =
                        [heap0[data.plan[m]] EXCEPT !.step = Num(m)]

\* fifteen valid, non-collapsible steps came back as ten
C3_Witness ==
    /\ pc = "returned" /\ data.ok
    /\ Len(plan0) = 15
    /\ Cardinality(Survivors) = 15
    /\ Len(data.plan) = StepCap

\* C4: the normalizer leaves the raw plan as it was: every step record
\* (its step number included) and the sequence of steps.
C4_RawPlanUntouched ==
    pc = "returned" => (heap = heap0 /\ plan = plan0)

(***************************************************************************)
(* planner.py: floats.  A float is none (Python None), +infinity, or a     *)
(* finite rational num/den with den > 0.  math.pi is the rational          *)
(* PiNum/PiDen; for every catalog range and every diameter of the model    *)
(* the comparisons with integers and the int() truncations below agree     *)
(* with IEEE double arithmetic.                                            *)
(***************************************************************************)
PiNum == 355
PiDen == 113

FNone == [k |-> "none", num |-> 0, den |-> 1]
FInf == [k |-> "inf", num |-> 0, den |-> 1]
Fl(a, b) == [k |-> "fin", num |-> a, den |-> b]

\* a < b and a > b on floats that are not None
Lt(a, b) ==
    IF a.k = "inf" THEN FALSE
    ELSE IF b.k = "inf" THEN TRUE
    ELSE IF a.den = b.den THEN a.num < b.num
    ELSE a.num * b.den < b.num * a.den
Gt(a, b) == Lt(b, a)
Neq(a, b) == Lt(a, b) \/ Lt(b, a)

\* int(x) of a finite float: truncation toward zero
IntOf(x) == IF x.num >= 0 THEN x.num \div x.den ELSE -((-x.num) \div x.den)

\* int(x) raises OverflowError on infinity
IntRaises(x) == x.k = "inf"

DigitChars == <<"0","1","2","3","4","5","6","7","8","9">>
IsDigits(str) ==
    /\ str # <<>>
    /\ \A k \in 1..Len(str) : \E d \in 1..10 : DigitChars[d] = str[k]
RECURSIVE DigitsValue(_)
DigitsValue(str) ==
    IF str = <<>> THEN 0
    ELSE 10 * DigitsValue(SubSeq(str, 1, Len(str) - 1))
           + (CHOOSE d \in 0..9 : DigitChars[d + 1] = str[Len(str)])

\* lines 50-54: float(x), None for None and for what float() refuses.
\* The strings of the model are digit strings or have no numeric reading.
_to_float(x) ==
    CASE x.t \in {"absent", "null"} -> FNone
      [] x.t = "num" -> Fl(x.n, 1)
      [] x.t = "inf" -> FInf
      [] x.t = "str" -> IF IsDigits(x.s) THEN Fl(DigitsValue(x.s), 1) ELSE FNone
      [] OTHER -> FNone

(***************************************************************************)
(* planner.py: _get_operation_category, _recommend_rpm                     *)
(***************************************************************************)
MillingKeywords == {
    <<"m","i","l","l","i","n","g">>, <<"f","a","c","e">>, <<"f","a","c","i","n","g">>,
    <<"r","o","u","g","h","i","n","g">>, <<"f","i","n","i","s","h","i","n","g">>,
    <<"c","o","n","t","o","u","r","i","n","g">>, <<"p","o","c","k","e","t","i","n","g">>,
    <<"c","h","a","m","f","e","r","i","n","g">> }

\* the category, or "" for None
_get_operation_category(operation_name) ==
    IF ~Truthy(operation_name) THEN ""
    ELSE LET op_lower == lower(operation_name.s)
         IN  CASE \E kw \in MillingKeywords : IsSubstr(kw, op_lower) -> "milling"
               [] IsSubstr(<<"d","r","i","l","l","i","n","g">>, op_lower) -> "drilling"
               [] IsSubstr(<<"r","e","a","m","i","n","g">>, op_lower) -> "reaming"
               [] IsSubstr(<<"t","a","p","p","i","n","g">>, op_lower) -> "tapping"
               [] OTHER -> ""

\* material_constraints.get(material_key, {}): the catalog entries with that key
material_properties(key) ==
    SelectSeq(MATERIAL_CONSTRAINTS, LAMBDA e : key.t = "str" /\ e.key = key.s)

\* material_props.get(op_category)
VcRange(props, op_category) ==
    CASE op_category = "milling" -> props.milling
      [] op_category = "drilling" -> props.drilling
      [] op_category = "reaming" -> props.reaming
      [] op_category = "tapping" -> props.tapping

\* lines 198-202, for d_mm > 0: (rpm_min, rpm_mid, rpm_max)
_recommend_rpm(op_category, props, d_mm) ==
    LET vc == VcRange(props, op_category)
        den == PiNum * d_mm.num
    IN  [rpm_min |-> Fl(vc[1] * 1000 * PiDen * d_mm.den, den),
         rpm_mid |-> Fl((vc[1] + vc[2]) * 1000 * PiDen * d_mm.den, 2 * den),
         rpm_max |-> Fl(vc[2] * 1000 * PiDen * d_mm.den, den)]

(***************************************************************************)
(* src/src/config.py: TOOL_CONSTRAINTS                                     *)
(***************************************************************************)
t_Vise == <<"V","i","s","e">>
t_Fixture == <<"F","i","x","t","u","r","e">>
t_SoftJaws == <<"S","o","f","t"," ","J","a","w","s">>
t_FaceMill == <<"F","a","c","e"," ","M","i","l","l">>
t_EndMill == <<"E","n","d"," ","M","i","l","l">>
t_CenterDrill == <<"C","e","n","t","e","r"," ","D","r","i","l","l">>
t_DrillBit == <<"D","r","i","l","l"," ","B","i","t">>
t_Reamer == <<"R","e","a","m","e","r">>
t_Tap == <<"T","a","p">>
t_ChamferMill == <<"C","h","a","m","f","e","r"," ","M","i","l","l">>
t_SpotDrill == <<"S","p","o","t"," ","D","r","i","l","l">>
t_DeburringTool == <<"D","e","b","u","r","r","i","n","g"," ","T","o","o","l">>

TOOL_CONSTRAINTS ==
    (op_Setup :> <<t_Vise, t_Fixture, t_SoftJaws>>)
 @@ (op_FaceMilling :> <<t_FaceMill, t_EndMill>>)
 @@ (op_Roughing :> <<t_EndMill>>)
 @@ (op_Finishing :> <<t_EndMill>>)
 @@ (op_CenterDrilling :> <<t_CenterDrill>>)
 @@ (op_Drilling :> <<t_DrillBit>>)
 @@ (op_Reaming :> <<t_Reamer>>)
 @@ (op_Tapping :> <<t_Tap>>)
 @@ (op_Chamfering :> <<t_ChamferMill, t_SpotDrill>>)
 @@ (op_Deburring :> <<t_DeburringTool, t_EndMill>>)
 @@ (op_Cleanup :> <<>>)
 @@ (op_FinalInspection :> <<>>)

(***************************************************************************)
(* planner.py: validate_plan, the body of its loop (lines 42-167).         *)
(* A stage maps the iteration's locals st = [step, flags, warnings,        *)
(* raised] to their values after the stage.  A warning sentence is the     *)
(* sequence of its pieces (literal text, and the characters of each        *)
(* formatted value); an en dash is written "-" and "≈" is written "~".     *)
(***************************************************************************)
\* str(n) for an integer n
RECURSIVE DecNat(_)
DecNat(n) == IF n < 10 THEN <<DigitChars[n + 1]>>
             ELSE DecNat(n \div 10) \o <<DigitChars[(n % 10) + 1]>>
Dec(n) == IF n < 0 THEN <<"-">> \o DecNat(-n) ELSE DecNat(n)

\* sep.join(parts), each part a sequence of pieces
RECURSIVE Join(_, _)
Join(parts, sep) ==
    IF parts = <<>> THEN <<>>
    ELSE IF Len(parts) = 1 THEN parts[1]
    ELSE parts[1] \o <<sep>> \o Join(Tail(parts), sep)

\* warnings.append(w); flags.append(f)
Flag(st, f, w) == [st EXCEPT !.flags = Append(@, f), !.warnings = Append(@, w)]
Raise(st) == [st EXCEPT !.raised = TRUE]

\* a plausible slip: the tool name is compared case-sensitively
ToolStageCaseSensitive(st, operation, tool) ==
    IF operation.t = "str" /\ operation.s \in DOMAIN TOOL_CONSTRAINTS
    THEN LET valid_tools == TOOL_CONSTRAINTS[operation.s]
         IN  IF /\ valid_tools # <<>>
                /\ Truthy(tool)
                /\ ~\E k \in 1..Len(valid_tools) : IsSubstr(valid_tools[k], tool.s)
             THEN Flag(st, "tool_op_mismatch",
                       <<"Tool '">> \o tool.s \o <<"' may be inappropriate for '">>
                         \o operation.s \o <<"'. Recommended: ">>
                         \o Join(valid_tools, ", ") \o <<".">>)
             ELSE st
    ELSE st

\* lines 60-68
ToolStage(st, operation, tool) ==
    IF operation.t = "str" /\ operation.s \in DOMAIN TOOL_CONSTRAINTS
    THEN LET valid_tools == TOOL_CONSTRAINTS[operation.s]
         IN  IF /\ valid_tools # <<>>
                /\ Truthy(tool)
                /\ ~\E k \in 1..Len(valid_tools) :
                        IsSubstr(lower(valid_tools[k]), lower(tool.s))
             THEN Flag(st, "tool_op_mismatch",
                       <<"Tool '">> \o tool.s \o <<"' may be inappropriate for '">>
                         \o operation.s \o <<"'. Recommended: ">>
                         \o Join(valid_tools, ", ") \o <<".">>)
             ELSE st
    ELSE st

\* line 73; a diameter of the model is None or finite
HasBasis(op_category, props, tool_diam_mm) ==
    /\ op_category # ""
    /\ props # <<>>
    /\ tool_diam_mm.k = "fin" /\ tool_diam_mm.num # 0
    /\ Gt(tool_diam_mm, Fl(0, 1))

\* a plausible slip: the underspeed is flagged but the speed is left as it was
UnderspeedFlagOnly(st, range_str) ==
    Flag(st, "rpm_machine_below_recommended",
         <<"Machine limit ">> \o Dec(max_spindle_speed_rpm)
           \o <<" is below the recommended range ">> \o range_str
           \o <<". Set RPM to machine limit ">> \o Dec(max_spindle_speed_rpm)
           \o <<" (underspeed).">>)

\* lines 82-88
UnderspeedBranch(st, range_str) ==
    Flag([st EXCEPT !.step.spindle_speed_rpm = Num(max_spindle_speed_rpm)],
         "rpm_machine_below_recommended",
         <<"Machine limit ">> \o Dec(max_spindle_speed_rpm)
           \o <<" is below the recommended range ">> \o range_str
           \o <<". Set RPM to machine limit ">> \o Dec(max_spindle_speed_rpm)
           \o <<" (underspeed).">>)

\* a plausible slip: the midpoint is stored without the machine cap
FillBranchUncapped(st, rpm) ==
    Flag([st EXCEPT !.step.spindle_speed_rpm = Num(IntOf(rpm.rpm_mid))],
         "rpm_filled_from_recommendation",
         <<"RPM was null; set to recommended ~">> \o Dec(IntOf(rpm.rpm_mid)) \o <<".">>)

\* lines 90-102
FillBranch(st, rpm) ==
    LET machine_max == Fl(max_spindle_speed_rpm, 1)
    IN  IF Gt(rpm.rpm_mid, machine_max)
        THEN Flag([st EXCEPT !.step.spindle_speed_rpm = Num(IntOf(machine_max))],
                  "rpm_filled_recommended_then_machine_cap",
                  <<"RPM was null; recommended ~">> \o Dec(IntOf(rpm.rpm_mid))
                    \o <<" but capped to machine limit ">> \o Dec(max_spindle_speed_rpm)
                    \o <<".">>)
        ELSE Flag([st EXCEPT !.step.spindle_speed_rpm = Num(IntOf(rpm.rpm_mid))],
                  "rpm_filled_from_recommendation",
                  <<"RPM was null; set to recommended ~">> \o Dec(IntOf(rpm.rpm_mid))
                    \o <<".">>)

\* lines 105-120: clamp to the recommended range; c is `corrected`
ClampToRange(st, speed_rpm, rpm, range_str) ==
    IF Lt(speed_rpm, rpm.rpm_min)
    THEN [c |-> rpm.rpm_min,
          st |-> Flag(st, "rpm_below_recommended_clamped",
                      <<"RPM ">> \o Dec(IntOf(speed_rpm))
                        \o <<" below the recommended range ">> \o range_str
                        \o <<". Clamped to recommended minimum ">>
                        \o Dec(IntOf(rpm.rpm_min)) \o <<".">>)]
    ELSE IF Gt(speed_rpm, rpm.rpm_max)
    THEN IF IntRaises(speed_rpm)
         THEN [c |-> rpm.rpm_max, st |-> Raise(st)]
         ELSE [c |-> rpm.rpm_max,
               st |-> Flag(st, "rpm_above_recommended_clamped",
                           <<"RPM ">> \o Dec(IntOf(speed_rpm))
                             \o <<" above the recommended range ">> \o range_str
                             \o <<". Clamped to recommended maximum ">>
                             \o Dec(IntOf(rpm.rpm_max)) \o <<".">>)]
    ELSE [c |-> speed_rpm, st |-> st]

\* a plausible slip: the machine cap is left out
CapToMachineSkipped(cl) == cl

\* lines 122-128: cap to the machine limit
CapToMachine(cl) ==
    LET machine_max == Fl(max_spindle_speed_rpm, 1)
    IN  IF Gt(cl.c, machine_max)
        THEN [c |-> machine_max,
              st |-> Flag(cl.st, "rpm_capped_to_machine",
                          <<"RPM ">> \o Dec(IntOf(cl.c)) \o <<" exceeds the machine limit ">>
                            \o Dec(max_spindle_speed_rpm) \o <<". Capped to ">>
                            \o Dec(max_spindle_speed_rpm) \o <<".">>)]
        ELSE cl

\* lines 130-132: store if changed
StoreIfChanged(cl, original) ==
    IF Neq(original, cl.c)
    THEN [cl.st EXCEPT !.step.spindle_speed_rpm = Num(IntOf(cl.c))]
    ELSE cl.st

\* lines 104-132
ClampBranch(st, speed_rpm, rpm, range_str) ==
    LET clamped == ClampToRange(st, speed_rpm, rpm, range_str)
    IN  IF clamped.st.raised THEN clamped.st
        ELSE StoreIfChanged(CapToMachine(clamped), speed_rpm)

\* the sentence of lines 140-142
NoBasisSentence ==
    <<"RPM is null and Vc-based recommendation unavailable (missing material or tool diameter).">>

\* a plausible slip: a missing speed without a basis passes silently
NoBasisBranchSilent(st, speed_rpm, op_category) == st

\* lines 139-143
NoBasisBranch(st, speed_rpm, op_category) ==
    IF speed_rpm.k = "none" /\ op_category # ""
    THEN Flag(st, "rpm_null_no_basis", NoBasisSentence)
    ELSE st

\* str(material) inside the f-string of line 136
MaterialRepr(mat) == IF mat.t = "str" THEN mat.s ELSE <<"None">>

\* lines 71-143
SpindleStage(st, operation, speed_rpm, tool_diam_mm, mat, mkey) ==
    LET op_category == _get_operation_category(operation)
        props == material_properties(mkey)
    IN  IF HasBasis(op_category, props, tool_diam_mm)
        THEN LET rpm == _recommend_rpm(op_category, props[1], tool_diam_mm)
                 range_str == Dec(IntOf(rpm.rpm_min)) \o <<"-">> \o Dec(IntOf(rpm.rpm_max))
             IN  IF Lt(Fl(max_spindle_speed_rpm, 1), rpm.rpm_min)
                 THEN UnderspeedBranch(st, range_str)
                 ELSE IF speed_rpm.k = "none"
                 THEN FillBranch(st, rpm)
                 ELSE ClampBranch(st, speed_rpm, rpm, range_str)
        ELSE IF speed_rpm.k # "none" /\ ~Truthy(mkey)
        THEN Flag(st, "material_unknown_skip_rpm",
                  <<"Material '">> \o MaterialRepr(mat)
                    \o <<"' unknown; skipped Vc-based RPM validation.">>)
        ELSE NoBasisBranch(st, speed_rpm, op_category)

\* a plausible slip: a feed equal to the machine maximum is capped as well
FeedStageInclusive(st, feed_rate) ==
    IF feed_rate.k # "none" /\ ~Lt(feed_rate, Fl(max_feed_rate_mm_min, 1))
    THEN IF IntRaises(feed_rate) THEN Raise(st)
         ELSE Flag([st EXCEPT !.step.feed_rate_mm_min = Num(max_feed_rate_mm_min)],
                   "feed_capped_to_machine",
                   <<"Feed rate ">> \o Dec(IntOf(feed_rate)) \o <<" mm/min exceeds machine max (">>
                     \o Dec(max_feed_rate_mm_min) \o <<"). Auto-corrected to max.">>)
    ELSE st

\* lines 146-153
FeedStage(st, feed_rate) ==
    IF feed_rate.k # "none" /\ Gt(feed_rate, Fl(max_feed_rate_mm_min, 1))
    THEN IF IntRaises(feed_rate) THEN Raise(st)
         ELSE Flag([st EXCEPT !.step.feed_rate_mm_min = Num(max_feed_rate_mm_min)],
                   "feed_capped_to_machine",
                   <<"Feed rate ">> \o Dec(IntOf(feed_rate)) \o <<" mm/min exceeds machine max (">>
                     \o Dec(max_feed_rate_mm_min) \o <<"). Auto-corrected to max.">>)
    ELSE st

\* a plausible slip: the zero floor looks at the speed as corrected so far,
\* not at the parsed input speed
NonNegativeStageOnStored(st, speed_rpm, feed_rate) ==
    LET stored == _to_float(Get(st.step.spindle_speed_rpm))
        s1 == IF stored.k # "none" /\ Lt(stored, Fl(0, 1))
              THEN Flag([st EXCEPT !.step.spindle_speed_rpm = Num(0)],
                        "rpm_negative_to_zero", <<"Negative RPM replaced with 0.">>)
              ELSE st
    IN  IF feed_rate.k # "none" /\ Lt(feed_rate, Fl(0, 1))
        THEN Flag([s1 EXCEPT !.step.feed_rate_mm_min = Num(0)],
                  "feed_negative_to_zero", <<"Negative feed rate replaced with 0.">>)
        ELSE s1

\* lines 155-163
NonNegativeStage(st, speed_rpm, feed_rate) ==
    LET s1 == IF speed_rpm.k # "none" /\ Lt(speed_rpm, Fl(0, 1))
              THEN Flag([st EXCEPT !.step.spindle_speed_rpm = Num(0)],
                        "rpm_negative_to_zero", <<"Negative RPM replaced with 0.">>)
              ELSE st
    IN  IF feed_rate.k # "none" /\ Lt(feed_rate, Fl(0, 1))
        THEN Flag([s1 EXCEPT !.step.feed_rate_mm_min = Num(0)],
                  "feed_negative_to_zero", <<"Negative feed rate replaced with 0.">>)
        ELSE s1

\* a plausible slip: the warnings are joined without the "OK" default
AnnotateWithoutDefault(st) ==
    [st EXCEPT !.step.validation_flags = List(st.flags),
               !.step.validation_warnings = Str(Join(st.warnings, "; "))]

\* lines 165-166
Annotate(st) ==
    [st EXCEPT !.step.validation_flags = List(st.flags),
               !.step.validation_warnings =
                   Str(IF st.warnings = <<>> THEN <<"O","K">> ELSE Join(st.warnings, "; "))]

\* lines 43-166 on the copy `step`; an exception ends the iteration
ValidateOne(step, mat, mkey) ==
    LET operation == Get(step.operation)
        tool == Get(step.tool_description)
        speed_rpm == _to_float(Get(step.spindle_speed_rpm))
        feed_rate == _to_float(Get(step.feed_rate_mm_min))
        tool_diam_mm == _to_float(Get(step.tool_diameter_mm))
        st0 == [step |-> step, flags |-> <<>>, warnings |-> <<>>, raised |-> FALSE]
        st1 == ToolStage(st0, operation, tool)
        st2 == SpindleStage(st1, operation, speed_rpm, tool_diam_mm, mat, mkey)
        st3 == IF st2.raised THEN st2 ELSE FeedStage(st2, feed_rate)
        st4 == IF st3.raised THEN st3 ELSE NonNegativeStage(st3, speed_rpm, feed_rate)
    IN  IF st4.raised THEN st4 ELSE Annotate(st4)

\* a plausible slip: the loop works on the caller's dict itself
DictAlias(h, id) == [heap |-> h, ref |-> id]

\* line 42: step = dict(step_data), a new dict with the same items
DictCopy(h, id) == [heap |-> Append(h, h[id]), ref |-> Len(h) + 1]

(***************************************************************************)
(* Plans and material texts validate_plan is run on.                       *)
(***************************************************************************)
InOps == {Null, Str(op_Drilling), Str(op_Tapping), Str(op_FaceMilling), Str(op_Setup),
          Str(op_Cleanup), Str(op_Polishing)}
InTools == {Absent, Str(t_EndMill), Str(<<"T","A","P">>)}
InSpeeds == {Absent, Str(<<"a","b","c">>), Inf,
             Num(-5), Num(100), Str(<<"2","0","0","0">>), Num(9000), Num(20000)}
InFeeds == {Absent, Inf, Num(-500), Num(1200), Num(20000)}
InDiameters == {Null, Num(0), Num(-1), Num(5), Num(50)}

InSteps ==
    {[NoStep EXCEPT !.operation = o, !.tool_description = tl, !.spindle_speed_rpm = sp,
                    !.feed_rate_mm_min = fd, !.tool_diameter_mm = dm] :
        o \in InOps, tl \in InTools, sp \in InSpeeds, fd \in InFeeds, dm \in InDiameters}

\* the steps of the longer plans
CoreSteps == {
    [NoStep EXCEPT !.step = Num(1), !.operation = Str(op_Setup),
                   !.tool_description = Str(t_Vise)],
    [NoStep EXCEPT !.step = Num(2), !.operation = Str(op_Drilling),
                   !.tool_description = Str(t_DrillBit), !.tool_diameter_mm = Num(5),
                   !.feed_rate_mm_min = Num(20000)],
    [NoStep EXCEPT !.step = Num(3), !.operation = Str(op_Tapping),
                   !.tool_description = Str(t_EndMill), !.tool_diameter_mm = Num(5),
                   !.spindle_speed_rpm = Num(-5), !.feed_rate_mm_min = Num(-500)] }

RECURSIVE CorePlans(_)
CorePlans(n) ==
    IF n = 0 THEN {<<>>}
    ELSE LET shorter == CorePlans(n - 1)
         IN  shorter \cup {Append(q, st) : q \in shorter, st \in CoreSteps}

InPlans == {<<st>> : st \in InSteps} \cup CorePlans(MaxPlanLen)

InMaterials == {Null,
                Str(<<"6","0","6","1"," ","A","l","u","m","i","n","u","m">>),
                Str(<<"s","t","e","e","l">>),
                Str(<<"w","o","o","d">>)}

(***************************************************************************)
(* validate_plan, called on a plan and then once more on its own result.   *)
(***************************************************************************)
Init ==
    /\ heap \in InPlans
    /\ plan = [k \in 1..Len(heap) |-> k]
    /\ material \in InMaterials
    /\ heap0 = heap
    /\ plan0 = plan
    /\ validated_plan = <<>>
    /\ i = 1
    /\ pc = "enter"
    /\ pass = 1
    /\ material_db = Keys(MATERIAL_CONSTRAINTS)
    /\ material_key = Null
    /\ cleaned = <<>> /\ data = None

\* lines 29-38
Enter ==
    /\ pc = "enter"
    /\ validated_plan' = <<>>
    /\ material_key' = _infer_material_key(material, material_db)
    /\ i' = 1
    /\ pc' = "loop"
    /\ UNCHANGED <<heap, heap0, plan, plan0, cleaned, data, pass, material, material_db>>

\* lines 41-167: one iteration; an exception leaves validate_plan
ValidateStep ==
    /\ pc = "loop"
    /\ i <= Len(plan)
    /\ LET c == DictCopy(heap, plan[i])
           r == ValidateOne(c.heap[c.ref], material, material_key)
       IN  /\ heap' = [c.heap EXCEPT ![c.ref] = r.step]
           /\ IF r.raised
              THEN /\ pc' = "raised"
                   /\ UNCHANGED <<validated_plan, i>>
              ELSE /\ validated_plan' = Append(validated_plan, c.ref)
                   /\ i' = i + 1
                   /\ pc' = pc
    /\ UNCHANGED <<heap0, plan, plan0, cleaned, data, pass, material, material_db,
                   material_key>>

\* line 169
Return ==
    /\ pc = "loop"
    /\ i > Len(plan)
    /\ pc' = "returned"
    /\ UNCHANGED <<heap, heap0, plan, plan0, cleaned, data, validated_plan, i, pass,
                   material, material_db, material_key>>

\* the caller validates the validated plan again, with the same material
Revalidate ==
    /\ pc = "returned"
    /\ pass = 1
    /\ plan' = validated_plan
    /\ plan0' = validated_plan
    /\ heap0' = heap
    /\ pass' = 2
    /\ pc' = "enter"
    /\ UNCHANGED <<heap, cleaned, data, validated_plan, i, material, material_db,
                   material_key>>

Next == Enter \/ ValidateStep \/ Return \/ Revalidate

Spec == Init /\ [][Next]_vars

(***************************************************************************)
(* Claims about validate_plan (Spec).                                      *)
(***************************************************************************)
Returned == pc = "returned"
InStep(k) == heap[plan[k]]
OutStep(k) == heap[validated_plan[k]]
HasFlag(k, f) ==
    \E j \in 1..Len(OutStep(k).validation_flags.s) : OutStep(k).validation_flags.s[j] = f

\* C5: validate_plan never raises, and returns one annotated step per input
\* step, in the same order.
C5_AlwaysSucceeds ==
    /\ pc # "raised"
    /\ Returned =>
          /\ Len(validated_plan) = Len(plan)
          /\ \A k \in 1..Len(plan) :
                /\ OutStep(k).operation = InStep(k).operation
                /\ OutStep(k).step = InStep(k).step
                /\ OutStep(k).validation_flags.t = "list"
                /\ OutStep(k).validation_warnings.t = "str"

\* the flags that record a correction of the spindle speed or of the feed
CorrectionFlags == {
    "rpm_machine_below_recommended", "rpm_filled_recommended_then_machine_cap",
    "rpm_filled_from_recommendation", "rpm_below_recommended_clamped",
    "rpm_above_recommended_clamped", "rpm_capped_to_machine",
    "feed_capped_to_machine", "rpm_negative_to_zero", "feed_negative_to_zero" }

\* C6: validating the output of validate_plan again with the same material
\* raises no spindle-speed or feed correction flag on any step and leaves
\* every step's spindle_speed_rpm and feed_rate_mm_min as they were.
C6_SecondPassIsQuiet ==
    (Returned /\ pass = 2) =>
        \A k \in 1..Len(plan) :
            /\ \A f \in CorrectionFlags : ~HasFlag(k, f)
            /\ OutStep(k).spindle_speed_rpm = InStep(k).spindle_speed_rpm
            /\ OutStep(k).feed_rate_mm_min = InStep(k).feed_rate_mm_min

\* C7: at every point of a call, the caller's step records and the caller's
\* list are as they were when the call was entered.
C7_InputUntouched ==
    /\ plan = plan0
    /\ Len(heap) >= Len(heap0)
    /\ \A id \in 1..Len(heap0) : heap[id] = heap0[id]

\* a call has returned a step whose speed and flags differ from its input's
C7_Witness ==
    /\ Returned
    /\ \E k \in 1..Len(plan) :
          /\ OutStep(k).spindle_speed_rpm # InStep(k).spindle_speed_rpm
          /\ OutStep(k).validation_flags # InStep(k).validation_flags
          /\ validated_plan[k] # plan[k]

\* The resolution case of an input step, and its recommendation.
Category(k) == _get_operation_category(Get(InStep(k).operation))
Diameter(k) == _to_float(Get(InStep(k).tool_diameter_mm))
Speed(k) == _to_float(Get(InStep(k).spindle_speed_rpm))
ResolutionCase(k) ==
    /\ Category(k) # ""
    /\ material_key # Null
    /\ Diameter(k).k = "fin" /\ Diameter(k).num > 0
Recommended(k) == _recommend_rpm(Category(k), material_properties(material_key)[1], Diameter(k))
MachineMax == Fl(max_spindle_speed_rpm, 1)
Le(a, b) == ~Lt(b, a)
\* the steps a fill applies to
FillCase(k) ==
    /\ ResolutionCase(k)
    /\ Speed(k).k = "none"
    /\ Le(Recommended(k).rpm_min, MachineMax)
\* the value of a stored speed, as a float
OutSpeed(k) == _to_float(OutStep(k).spindle_speed_rpm)

\* C9 as stated: a filled speed is rpmMid itself when rpmMid <= machineMax,
\* and machineMax otherwise, with exactly one of the two fill flags.
C9_FillsWithMidpoint ==
    Returned =>
        \A k \in 1..Len(plan) : FillCase(k) =>
            IF Le(Recommended(k).rpm_mid, MachineMax)
            THEN /\ OutSpeed(k).k = "fin"
                 /\ ~Neq(OutSpeed(k), Recommended(k).rpm_mid)
                 /\ HasFlag(k, "rpm_filled_from_recommendation")
                 /\ ~HasFlag(k, "rpm_filled_recommended_then_machine_cap")
            ELSE /\ OutStep(k).spindle_speed_rpm = Num(max_spindle_speed_rpm)
                 /\ HasFlag(k, "rpm_filled_recommended_then_machine_cap")
                 /\ ~HasFlag(k, "rpm_filled_from_recommendation")

\* C9, amended: a filled speed is rpmMid truncated to an integer when
\* rpmMid <= machineMax, and machineMax otherwise, with exactly one of the
\* two fill flags.
C9_FillsWithTruncatedMidpoint ==
    Returned =>
        \A k \in 1..Len(plan) : FillCase(k) =>
            IF Le(Recommended(k).rpm_mid, MachineMax)
            THEN /\ OutStep(k).spindle_speed_rpm = Num(IntOf(Recommended(k).rpm_mid))
                 /\ HasFlag(k, "rpm_filled_from_recommendation")
                 /\ ~HasFlag(k, "rpm_filled_recommended_then_machine_cap")
            ELSE /\ OutStep(k).spindle_speed_rpm = Num(max_spindle_speed_rpm)
                 /\ HasFlag(k, "rpm_filled_recommended_then_machine_cap")
                 /\ ~HasFlag(k, "rpm_filled_from_recommendation")

\* "6061 Aluminum", Drilling, diameter 5, no speed: 8100 with the cap flag
C9_Witness ==
    /\ Returned /\ pass = 1
    /\ material_key = Str(k_aluminum)
    /\ \E k \in 1..Len(plan) :
          /\ InStep(k).operation = Str(op_Drilling)
          /\ InStep(k).tool_diameter_mm = Num(5)
          /\ InStep(k).spindle_speed_rpm = Absent
          /\ FillCase(k)
          /\ OutStep(k).spindle_speed_rpm = Num(8100)
          /\ HasFlag(k, "rpm_filled_recommended_then_machine_cap")

\* the steps a clamp applies to: a present, non-negative, finite speed
ClampCase(k) ==
    /\ ResolutionCase(k)
    /\ Speed(k).k = "fin"
    /\ Le(Fl(0, 1), Speed(k))
    /\ Le(Recommended(k).rpm_min, MachineMax)
FMin(a, b) == IF Lt(b, a) THEN b ELSE a
FMax(a, b) == IF Lt(a, b) THEN b ELSE a
\* clamp(speed, rpmMin, rpmMax) and min(clamp(...), machineMax)
Clamped(k) == FMin(FMax(Speed(k), Recommended(k).rpm_min), Recommended(k).rpm_max)
Target(k) == FMin(Clamped(k), MachineMax)
SpindleFlags == {
    "rpm_machine_below_recommended", "rpm_filled_recommended_then_machine_cap",
    "rpm_filled_from_recommendation", "rpm_below_recommended_clamped",
    "rpm_above_recommended_clamped", "rpm_capped_to_machine",
    "material_unknown_skip_rpm", "rpm_null_no_basis", "rpm_negative_to_zero" }
ClampFlagsAsClaimed(k) ==
    /\ Lt(Speed(k), Recommended(k).rpm_min) => HasFlag(k, "rpm_below_recommended_clamped")
    /\ Gt(Speed(k), Recommended(k).rpm_max) => HasFlag(k, "rpm_above_recommended_clamped")
    /\ Gt(Clamped(k), MachineMax) => HasFlag(k, "rpm_capped_to_machine")
    /\ ~Neq(Target(k), Speed(k)) =>
          /\ OutStep(k).spindle_speed_rpm = InStep(k).spindle_speed_rpm
          /\ \A f \in SpindleFlags : ~HasFlag(k, f)

UnderspeedCase(k) ==
    /\ ResolutionCase(k)
    /\ Lt(MachineMax, Recommended(k).rpm_min)
FillClampCapFlags == {
    "rpm_filled_recommended_then_machine_cap", "rpm_filled_from_recommendation",
    "rpm_below_recommended_clamped", "rpm_above_recommended_clamped",
    "rpm_capped_to_machine" }
NegativeSpeed(k) == Speed(k).k # "none" /\ Lt(Speed(k), Fl(0, 1))

\* C11 as stated: in the resolution case with machineMax < rpmMin the output
\* speed is machineMax and the step is flagged rpm_machine_below_recommended,
\* whether the input speed was absent or present, with none of the fill, clamp
\* or cap flags.
C11_UnderspeedSetsMachineMax ==
    Returned =>
        \A k \in 1..Len(plan) : UnderspeedCase(k) =>
            /\ OutStep(k).spindle_speed_rpm = Num(max_spindle_speed_rpm)
            /\ HasFlag(k, "rpm_machine_below_recommended")
            /\ \A f \in FillClampCapFlags : ~HasFlag(k, f)

\* C11, amended: in the resolution case with machineMax < rpmMin the step is
\* flagged rpm_machine_below_recommended with none of the fill, clamp or cap
\* flags, and the output speed is machineMax when the input speed is absent or
\* not negative, and 0 (the non-negativity rule, applied later) when the input
\* speed is negative.
C11_UnderspeedUnlessNegative ==
    Returned =>
        \A k \in 1..Len(plan) : UnderspeedCase(k) =>
            /\ OutStep(k).spindle_speed_rpm =
                  (IF NegativeSpeed(k) THEN Num(0) ELSE Num(max_spindle_speed_rpm))
            /\ HasFlag(k, "rpm_machine_below_recommended")
            /\ \A f \in FillClampCapFlags : ~HasFlag(k, f)

\* "6061 Aluminum", Face Milling, diameter 5 (rpmMin 9549 > 8100): a present
\* speed of 100 was replaced by 8100 and flagged
C11_Witness ==
    /\ Returned /\ pass = 1
    /\ \E k \in 1..Len(plan) :
          /\ UnderspeedCase(k)
          /\ InStep(k).operation = Str(op_FaceMilling)
          /\ InStep(k).spindle_speed_rpm = Num(100)
          /\ IntOf(Recommended(k).rpm_min) = 9549
          /\ OutStep(k).spindle_speed_rpm = Num(max_spindle_speed_rpm)
          /\ HasFlag(k, "rpm_machine_below_recommended")

\* the steps without a speed and without a basis for a recommendation
NoBasisCase(k) ==
    /\ Speed(k).k = "none"
    /\ ~ResolutionCase(k)
\* the warning sentence w is one of the sentences of the output step
HasWarning(k, w) ==
    LET text == OutStep(k).validation_warnings.s
    IN  \E j \in 1..Len(text) : SubSeq(text, j, j + Len(w) - 1) = w

\* C12 as stated: every step whose speed is absent and that has no basis for
\* a recommendation (no known category, or no positive diameter, or no
\* cutting-speed data for the material) is flagged rpm_null_no_basis and warned
\* that the recommendation is unavailable.
C12_NoBasisAlwaysFlagged ==
    Returned =>
        \A k \in 1..Len(plan) : NoBasisCase(k) =>
            /\ HasFlag(k, "rpm_null_no_basis")
            /\ HasWarning(k, NoBasisSentence)

\* C12, amended: a step whose speed is absent and that has no basis for a
\* recommendation is flagged rpm_null_no_basis, and warned that the
\* recommendation is unavailable, exactly when its operation maps to a known
\* category; a step whose operation maps to no category gets neither.
C12_NoBasisFlaggedForKnownCategory ==
    Returned =>
        \A k \in 1..Len(plan) : NoBasisCase(k) =>
            /\ HasFlag(k, "rpm_null_no_basis") <=> Category(k) # ""
            /\ HasWarning(k, NoBasisSentence) <=> Category(k) # ""

\* "6061 Aluminum", Drilling without a diameter and without a speed: flagged,
\* the speed stays absent
C12_Witness ==
    /\ Returned /\ pass = 1
    /\ material_key = Str(k_aluminum)
    /\ \E k \in 1..Len(plan) :
          /\ NoBasisCase(k)
          /\ InStep(k).operation = Str(op_Drilling)
          /\ InStep(k).tool_diameter_mm = Null
          /\ InStep(k).spindle_speed_rpm = Absent
          /\ HasFlag(k, "rpm_null_no_basis")
          /\ HasWarning(k, NoBasisSentence)
          /\ OutStep(k).spindle_speed_rpm = Absent

Feed(k) == _to_float(Get(InStep(k).feed_rate_mm_min))
MachineMaxFeed == Fl(max_feed_rate_mm_min, 1)
FeedFlags == {"feed_capped_to_machine", "feed_negative_to_zero"}

NegativeFeed(k) == Feed(k).k # "none" /\ Lt(Feed(k), Fl(0, 1))

\* C14: a step whose input speed parses to a negative number comes back with
\* speed 0 and the flag rpm_negative_to_zero, whatever spindle correction was
\* made earlier in the step; a step whose input feed parses to a negative
\* number comes back with feed 0 and the flag feed_negative_to_zero.
C14_NegativeToZero ==
    Returned =>
        \A k \in 1..Len(plan) :
            /\ NegativeSpeed(k) =>
                  /\ OutStep(k).spindle_speed_rpm = Num(0)
                  /\ HasFlag(k, "rpm_negative_to_zero")
            /\ NegativeFeed(k) =>
                  /\ OutStep(k).feed_rate_mm_min = Num(0)
                  /\ HasFlag(k, "feed_negative_to_zero")

\* a speed of -5 was first clamped to the recommended minimum and then
\* replaced by 0, and a feed of -500 was replaced by 0
C14_Witness ==
    /\ Returned /\ pass = 1
    /\ \E k \in 1..Len(plan) :
          /\ InStep(k).spindle_speed_rpm = Num(-5)
          /\ InStep(k).feed_rate_mm_min = Num(-500)
          /\ NegativeSpeed(k) /\ NegativeFeed(k)
          /\ HasFlag(k, "rpm_below_recommended_clamped")
          /\ HasFlag(k, "rpm_negative_to_zero")
          /\ HasFlag(k, "feed_negative_to_zero")
          /\ OutStep(k).spindle_speed_rpm = Num(0)
          /\ OutStep(k).feed_rate_mm_min = Num(0)

\* the required-tool list of an input step's operation; empty when the
\* operation is not in the table
RequiredTools(k) ==
    LET operation == Get(InStep(k).operation)
    IN  IF operation.t = "str" /\ operation.s \in DOMAIN TOOL_CONSTRAINTS
        THEN TOOL_CONSTRAINTS[operation.s]
        ELSE <<>>
ToolName(k) == Get(InStep(k).tool_description)
\* no required-tool name is a case-insensitive substring of the tool name
ToolMismatch(k) ==
    \A j \in 1..Len(RequiredTools(k)) :
        ~IsSubstr(lower(RequiredTools(k)[j]), lower(ToolName(k).s))
\* the end of the mismatch sentence: the recommended tools
RecommendedTools(k) ==
    <<"'. Recommended: ">> \o Join(RequiredTools(k), ", ") \o <<".">>
OutFlags(k) == OutStep(k).validation_flags.s

\* C15: a step is flagged tool_op_mismatch, with a warning that lists the
\* recommended tools, exactly when its operation has a non-empty required-tool
\* list, its tool name is present and no required-tool name is a
\* case-insensitive substring of it; the check changes no field of the step
\* other than the flags and warnings.
C15_ToolMismatchExactly ==
    Returned =>
        \A k \in 1..Len(plan) :
            /\ HasFlag(k, "tool_op_mismatch") <=>
                  (RequiredTools(k) # <<>> /\ Truthy(ToolName(k)) /\ ToolMismatch(k))
            /\ HasFlag(k, "tool_op_mismatch") => HasWarning(k, RecommendedTools(k))
            /\ OutStep(k).operation = InStep(k).operation
            /\ OutStep(k).tool_description = InStep(k).tool_description
            /\ OutStep(k).tool_diameter_mm = InStep(k).tool_diameter_mm
            /\ OutStep(k).step = InStep(k).step
            /\ OutStep(k).notes = InStep(k).notes
            /\ OutFlags(k) = <<"tool_op_mismatch">> =>
                  /\ OutStep(k).spindle_speed_rpm = InStep(k).spindle_speed_rpm
                  /\ OutStep(k).feed_rate_mm_min = InStep(k).feed_rate_mm_min

\* Tapping with "End Mill" was flagged and the warning recommends "Tap", and
\* nothing else of the step changed
C15_Witness ==
    /\ Returned /\ pass = 1
    /\ \E k \in 1..Len(plan) :
          /\ InStep(k).operation = Str(op_Tapping)
          /\ InStep(k).tool_description = Str(t_EndMill)
          /\ OutFlags(k) = <<"tool_op_mismatch">>
          /\ HasWarning(k, <<"'. Recommended: ", "T", "a", "p", ".">>)
          /\ OutStep(k).spindle_speed_rpm = InStep(k).spindle_speed_rpm

\* text.split(sep), for a sequence of pieces
RECURSIVE SplitAt(_, _)
SplitAt(text, sep) ==
    IF \E j \in 1..Len(text) : text[j] = sep
    THEN LET j == CHOOSE j \in 1..Len(text) :
                      text[j] = sep /\ \A h \in 1..(j - 1) : text[h] # sep
         IN  <<SubSeq(text, 1, j - 1)>> \o SplitAt(SubSeq(text, j + 1, Len(text)), sep)
    ELSE <<text>>
\* the first words of the warning sentence that goes with a flag
SentenceStart(f) ==
    CASE f = "tool_op_mismatch" -> "Tool '"
      [] f = "rpm_machine_below_recommended" -> "Machine limit "
      [] f = "rpm_filled_recommended_then_machine_cap" -> "RPM was null; recommended ~"
      [] f = "rpm_filled_from_recommendation" -> "RPM was null; set to recommended ~"
      [] f = "rpm_below_recommended_clamped" -> "RPM "
      [] f = "rpm_above_recommended_clamped" -> "RPM "
      [] f = "rpm_capped_to_machine" -> "RPM "
      [] f = "material_unknown_skip_rpm" -> "Material '"
      [] f = "rpm_null_no_basis" -> NoBasisSentence[1]
      [] f = "feed_capped_to_machine" -> "Feed rate "
      [] f = "rpm_negative_to_zero" -> "Negative RPM replaced with 0."
      [] f = "feed_negative_to_zero" -> "Negative feed rate replaced with 0."
\* the place of a flag in the rule order
RuleOrder(f) ==
    CASE f = "tool_op_mismatch" -> 1
      [] f = "feed_capped_to_machine" -> 3
      [] f = "rpm_negative_to_zero" -> 4
      [] f = "feed_negative_to_zero" -> 5
      [] OTHER -> 2
AllFlags == SpindleFlags \cup FeedFlags \cup {"tool_op_mismatch"}
OutWarnings(k) == OutStep(k).validation_warnings.s
OK == <<"O", "K">>

\* C16: in every output step validation_warnings is "OK" exactly when
\* validation_flags is empty; otherwise it is the "; "-join of one warning
\* sentence per flag, and the flags are in the rule order: tool_op_mismatch,
\* spindle flags, feed_capped_to_machine, rpm_negative_to_zero,
\* feed_negative_to_zero.
C16_FlagsMatchWarnings ==
    Returned =>
        \A k \in 1..Len(plan) :
            LET flags == OutFlags(k)
                sentences == SplitAt(OutWarnings(k), "; ")
            IN  /\ OutWarnings(k) = OK <=> flags = <<>>
                /\ \A j \in 1..Len(flags) : flags[j] \in AllFlags
                /\ flags # <<>> =>
                      /\ Len(sentences) = Len(flags)
                      /\ \A j \in 1..Len(flags) :
                            /\ sentences[j] # <<>>
                            /\ sentences[j][1] = SentenceStart(flags[j])
                /\ \A j \in 1..(Len(flags) - 1) :
                      /\ RuleOrder(flags[j]) <= RuleOrder(flags[j + 1])
                      /\ flags[j] # flags[j + 1]

\* Tapping with "End Mill", speed 20000 and feed 20000 came back with four
\* flags in the rule order and four sentences
C16_Witness ==
    /\ Returned /\ pass = 1
    /\ \E k \in 1..Len(plan) :
          /\ OutFlags(k) = <<"tool_op_mismatch", "rpm_above_recommended_clamped",
                             "rpm_capped_to_machine", "feed_capped_to_machine">>
          /\ Len(SplitAt(OutWarnings(k), "; ")) = 4
          /\ OutWarnings(k) # OK

\* C17: in every output step a spindle speed that is a number lies in
\* [0, max_spindle_speed_rpm], for every plan and every material text,
\* resolved or not.
C17_SpeedWithinMachineLimit ==
    Returned =>
        \A k \in 1..Len(plan) :
            OutStep(k).spindle_speed_rpm.t \in {"num", "inf"} =>
                /\ OutStep(k).spindle_speed_rpm.t = "num"
                /\ OutStep(k).spindle_speed_rpm.n >= 0
                /\ OutStep(k).spindle_speed_rpm.n <= max_spindle_speed_rpm
====
